---- MODULE Spec2Model ----
(***************************************************************************)
(* importer/helpers/dagbuilder.go: the DagBuilderHelper.  One builder over *)
(* one chunker.Splitter: the one-chunk lookahead (prepareNext, Done,       *)
(* Next), the leaf factory (NewLeaf), the layer filler (FillNodeLayer,     *)
(* GetNextDataNode), and the writes to the DAGService (Add, Close).        *)
(***************************************************************************)
EXTENDS Integers, Sequences, FiniteSets, TLC

(***************************************************************************)
(* Bounds of the model.                                                    *)
(***************************************************************************)
\* pulls of the splitter that may return anything; later pulls return io.EOF
MaxPulls == 2
\* UnixfsNodes the caller hands to FillNodeLayer
MaxNodes == 2

\* nodes ipld.Batch holds before it writes them out by itself (scaled)
BatchMax == 1

\* helpers.BlockSizeLimit (1 MB in the package), scaled to bytes of the model
BlockSizeLimit == 2

(***************************************************************************)
(* Values.  A Go []byte is nil or a byte sequence (possibly of length 0).  *)
(***************************************************************************)
Nil == [nil |-> TRUE, b |-> <<>>]
Bytes(s) == [nil |-> FALSE, b |-> s]
len(d) == Len(d.b)

\* a chunk longer than BlockSizeLimit
BigChunk == Bytes([i \in 1..(BlockSizeLimit + 1) |-> 1])

\* what a pull of the splitter can return: (bytes, error)
Res(d, e) == [data |-> d, err |-> e]
EOFResult == Res(Nil, "EOF")
SrcChunks == {Bytes(<<>>), Bytes(<<1>>), BigChunk}
Results ==
  {Res(c, "nil") : c \in SrcChunks}
    \cup {EOFResult, Res(Nil, "ERR"), Res(Nil, "nil"),
          Res(Bytes(<<1>>), "EOF"), Res(Bytes(<<1>>), "ERR")}

\* the Maxlinks of the params: negative, zero and positive values
LinksRange == {0 - 1, 0, 1, 2}

\* the *cid.Prefix of the params: unset, usable, or one whose hash function
\* prefix.Sum rejects
Prefixes == {"nil", "ok", "bad"}

\* a UnixfsNode: a raw node, or a ProtoNode with an FSNode of type TFile/TRaw
NoNode == [kind |-> "nil", data |-> Nil, prefix |-> "nil", links |-> <<>>]
Node(k, d, p) == [kind |-> k, data |-> d, prefix |-> p, links |-> <<>>]

VARIABLES
  maxlinks,   \* db.maxlinks
  rawLeaves,  \* db.rawLeaves
  prefix,     \* db.prefix
  pulled,     \* what db.spl.NextBytes() has returned so far (first MaxPulls)
  nextData,   \* db.nextData
  recvdErr,   \* db.recvdErr
  nodes,      \* the UnixfsNodes the caller builds, in the order it made them
  pc,         \* "idle", or "fill" inside the loop of FillNodeLayer
  cur,        \* the node FillNodeLayer is (or was last) filling
  entry,      \* the children that node had when FillNodeLayer was called
  ret,        \* the last call and what it returned
  store,      \* the nodes db.dserv holds
  pending,    \* the nodes db.batch holds and has not written
  batchErr,   \* db.batch's error, set once a write of the batch failed
  surfaced,   \* a read failure of the splitter has been returned to the caller
  sawDone,    \* Done() has returned true
  clean,      \* the caller has only called Done and FillNodeLayer(fresh node)
  fillErr,    \* some FillNodeLayer has returned an error
  taken,      \* the chunks Next() has returned, in order
  turns       \* the times the loop body of the current FillNodeLayer has run

vars == <<maxlinks, rawLeaves, prefix, pulled, nextData, recvdErr, nodes, pc,
          cur, entry, ret, store, pending, batchErr, surfaced, sawDone, clean,
          fillErr, taken, turns>>

cfgVars == <<maxlinks, rawLeaves, prefix>>
srcVars == <<pulled, nextData, recvdErr>>
batchVars == <<store, pending, batchErr>>
histVars == <<surfaced, sawDone, clean, fillErr>>

\* the record of a call
\* (again: the call before it was a call of the same operation)
Ret(op, b, d, n, e) == [op |-> op, again |-> (ret.op = op), b |-> b, data |-> d, node |-> n, err |-> e]
NoRet == [op |-> "New", again |-> FALSE, b |-> FALSE, data |-> Nil, node |-> NoNode, err |-> "nil"]

(***************************************************************************)
(* The splitter.                                                           *)
(***************************************************************************)
NextBytes(h) == IF Len(h) < MaxPulls THEN Results ELSE {EOFResult}
Pulled(h, r) == IF Len(h) < MaxPulls THEN Append(h, r) ELSE h

\* the lookahead of the builder
S == [nextData |-> nextData, recvdErr |-> recvdErr, pulled |-> pulled]

(***************************************************************************)
(* prepareNext, Done, Next (r: what NextBytes returns if it is called).    *)
(***************************************************************************)
prepareNext_noGuard(s, r) ==
  [nextData |-> r.data,
   recvdErr |-> IF r.err = "EOF" THEN "nil" ELSE r.err,
   pulled |-> Pulled(s.pulled, r)]

prepareNext_keepEOF(s, r) ==
  IF s.nextData # Nil \/ s.recvdErr # "nil" THEN s
  ELSE [nextData |-> r.data, recvdErr |-> r.err, pulled |-> Pulled(s.pulled, r)]

\* pulls again although a failure is pending
prepareNext_retryOnErr(s, r) ==
  IF s.nextData # Nil THEN s
  ELSE [nextData |-> r.data,
        recvdErr |-> IF r.err = "EOF" THEN "nil" ELSE r.err,
        pulled |-> Pulled(s.pulled, r)]

prepareNext(s, r) ==
  IF s.nextData # Nil \/ s.recvdErr # "nil" THEN s
  ELSE [nextData |-> r.data,
        recvdErr |-> IF r.err = "EOF" THEN "nil" ELSE r.err,
        pulled |-> Pulled(s.pulled, r)]

\* tests the length of the buffered chunk instead of comparing it with nil
Done_lenZero(s, r) ==
  LET t == prepareNext(s, r)
  IN  [s |-> t, b |-> IF t.recvdErr # "nil" THEN FALSE ELSE len(t.nextData) = 0]

Done(s, r) ==
  LET t == prepareNext(s, r)
  IN  [s |-> t, b |-> IF t.recvdErr # "nil" THEN FALSE ELSE t.nextData = Nil]

DbNext_clearErr(s, r) ==
  LET t == prepareNext(s, r)
      u == [t EXCEPT !.nextData = Nil]
  IN  IF t.recvdErr # "nil"
        THEN [s |-> [u EXCEPT !.recvdErr = "nil"], data |-> Nil, err |-> t.recvdErr]
        ELSE [s |-> u, data |-> t.nextData, err |-> "nil"]

\* returns the failure before the buffered chunk is cleared
DbNext_keepData(s, r) ==
  LET t == prepareNext(s, r)
      u == [t EXCEPT !.nextData = Nil]
  IN  IF t.recvdErr # "nil"
        THEN [s |-> t, data |-> Nil, err |-> t.recvdErr]
        ELSE [s |-> u, data |-> t.nextData, err |-> "nil"]

\* never clears the buffered chunk
DbNext_noConsume(s, r) ==
  LET t == prepareNext(s, r)
  IN  IF t.recvdErr # "nil"
        THEN [s |-> t, data |-> Nil, err |-> t.recvdErr]
        ELSE [s |-> t, data |-> t.nextData, err |-> "nil"]

DbNext(s, r) ==
  LET t == prepareNext(s, r)
      u == [t EXCEPT !.nextData = Nil]
  IN  IF t.recvdErr # "nil"
        THEN [s |-> u, data |-> Nil, err |-> t.recvdErr]
        ELSE [s |-> u, data |-> t.nextData, err |-> "nil"]

(***************************************************************************)
(* The leaf factory.                                                       *)
(***************************************************************************)
NewUnixfsNode(p) == Node("TFile", Nil, p)
newUnixfsBlock(p) == Node("TRaw", Nil, p)
SetData(n, d) == [n EXCEPT !.data = d]
NewRawNode(d) == [node |-> Node("raw", d, "nil"), err |-> "nil"]
NewRawNodeWPrefix(d, p) ==
  IF p = "bad" THEN [node |-> NoNode, err |-> "ErrPrefix"]
  ELSE [node |-> Node("raw", d, p), err |-> "nil"]

NewLeaf_noLimitRaw(data, raw, p) ==
  IF raw THEN (IF p = "nil" THEN NewRawNode(data) ELSE NewRawNodeWPrefix(data, p))
  ELSE IF len(data) > BlockSizeLimit THEN [node |-> NoNode, err |-> "ErrSizeLimitExceeded"]
  ELSE IF data = Nil THEN [node |-> NewUnixfsNode(p), err |-> "nil"]
  ELSE [node |-> SetData(newUnixfsBlock(p), data), err |-> "nil"]

NewLeaf_emptyIsNil(data, raw, p) ==
  IF len(data) > BlockSizeLimit THEN [node |-> NoNode, err |-> "ErrSizeLimitExceeded"]
  ELSE IF raw THEN (IF p = "nil" THEN NewRawNode(data) ELSE NewRawNodeWPrefix(data, p))
  ELSE IF len(data) = 0 THEN [node |-> NewUnixfsNode(p), err |-> "nil"]
  ELSE [node |-> SetData(newUnixfsBlock(p), data), err |-> "nil"]

NewLeaf(data, raw, p) ==
  IF len(data) > BlockSizeLimit THEN [node |-> NoNode, err |-> "ErrSizeLimitExceeded"]
  ELSE IF raw THEN (IF p = "nil" THEN NewRawNode(data) ELSE NewRawNodeWPrefix(data, p))
  ELSE IF data = Nil THEN [node |-> NewUnixfsNode(p), err |-> "nil"]
  ELSE [node |-> SetData(newUnixfsBlock(p), data), err |-> "nil"]

\* tests the length of the chunk instead of comparing it with nil
GetNextDataNode_lenZero(s, r, raw, p) ==
  LET n == DbNext(s, r)
  IN  IF n.err # "nil" THEN [s |-> n.s, node |-> NoNode, err |-> n.err]
      ELSE IF len(n.data) = 0 THEN [s |-> n.s, node |-> NoNode, err |-> "nil"]
      ELSE [s |-> n.s] @@ NewLeaf(n.data, raw, p)

GetNextDataNode(s, r, raw, p) ==
  LET n == DbNext(s, r)
  IN  IF n.err # "nil" THEN [s |-> n.s, node |-> NoNode, err |-> n.err]
      ELSE IF n.data = Nil THEN [s |-> n.s, node |-> NoNode, err |-> "nil"]
      ELSE [s |-> n.s] @@ NewLeaf(n.data, raw, p)

(***************************************************************************)
(* The batch (ipld.Batch over db.dserv) and the DAGService.                *)
(* b = [store, pending, batchErr]; ok: the DAGService accepts the write.   *)
(* The batch writes its nodes out by itself once it holds more than        *)
(* BatchMax of them (the size threshold of ipld.Batch, scaled).            *)
(***************************************************************************)
B == [store |-> store, pending |-> pending, batchErr |-> batchErr]

Range(q) == {q[i] : i \in 1..Len(q)}

BatchWrite(b, q, ok) ==
  IF ok THEN [B |-> [store |-> b.store \cup Range(q), pending |-> <<>>, batchErr |-> FALSE], err |-> "nil"]
  ELSE [B |-> [store |-> b.store, pending |-> <<>>, batchErr |-> TRUE], err |-> "ErrStore"]

BatchAdd(b, nd, ok) ==
  IF b.batchErr THEN [B |-> b, err |-> "ErrStore"]
  ELSE IF Len(b.pending) + 1 <= BatchMax
    THEN [B |-> [b EXCEPT !.pending = Append(@, nd)], err |-> "nil"]
  ELSE BatchWrite(b, Append(b.pending, nd), ok)

Commit(b, ok) ==
  IF b.batchErr THEN [B |-> b, err |-> "ErrStore"]
  ELSE IF b.pending = <<>> THEN [B |-> b, err |-> "nil"]
  ELSE BatchWrite(b, b.pending, ok)

Close_noCommit(b, ok) == [B |-> b, err |-> "nil"]

Close_once(b, ok) ==
  IF b.pending = <<>> /\ b.store # {} THEN [B |-> b, err |-> "ErrClosed"] ELSE Commit(b, ok)

Close(b, ok) == Commit(b, ok)

\* enc: node.GetDagNode() succeeds
Add_viaBatch(n, b, enc, ok) ==
  IF ~enc THEN [B |-> b, node |-> NoNode, err |-> "ErrEncode"]
  ELSE LET a == BatchAdd(b, n, ok)
       IN  IF a.err # "nil" THEN [B |-> a.B, node |-> NoNode, err |-> a.err]
           ELSE [B |-> a.B, node |-> n, err |-> "nil"]

Add(n, b, enc, ok) ==
  IF ~enc THEN [B |-> b, node |-> NoNode, err |-> "ErrEncode"]
  ELSE IF ~ok THEN [B |-> b, node |-> NoNode, err |-> "ErrStore"]
  ELSE [B |-> [b EXCEPT !.store = @ \cup {n}], node |-> n, err |-> "nil"]

(***************************************************************************)
(* UnixfsNode.NumChildren, UnixfsNode.AddChild and FillNodeLayer.          *)
(***************************************************************************)
NumChildren(n) == Len(n.links)

AddChild(n, child, b, ok) ==
  LET a == BatchAdd(b, child, ok)
  IN  [node |-> [n EXCEPT !.links = Append(@, child)], B |-> a.B, err |-> a.err]

HasRoom_le(n, m) == NumChildren(n) <= m

\* stops one child short of maxlinks
HasRoom_off(n, m) == NumChildren(n) + 1 < m

HasRoom(n, m) == NumChildren(n) < m

FillTurn_takeFirst(n, s, b, r1, r2, ok) ==
  LET d == Done(s, r1)
  IN  IF d.b THEN [node |-> n, s |-> d.s, B |-> b, more |-> FALSE, err |-> "nil", why |-> "done"]
      ELSE LET g == GetNextDataNode(d.s, r2, rawLeaves, prefix)
           IN  IF g.err # "nil"
                 THEN [node |-> n, s |-> g.s, B |-> b, more |-> FALSE, err |-> g.err, why |-> "body"]
               ELSE IF ~HasRoom(n, maxlinks) \/ g.node = NoNode
                 THEN [node |-> n, s |-> g.s, B |-> b, more |-> FALSE, err |-> "nil", why |-> "body"]
               ELSE LET a == AddChild(n, g.node, b, ok)
                    IN  [node |-> a.node, s |-> g.s, B |-> a.B,
                         more |-> (a.err = "nil"), err |-> a.err, why |-> "body"]

\* the loop goes on after an error of GetNextDataNode instead of returning it
FillTurn_swallow(n, s, b, r1, r2, ok) ==
  IF ~HasRoom(n, maxlinks)
    THEN [node |-> n, s |-> s, B |-> b, more |-> FALSE, err |-> "nil", why |-> "full"]
  ELSE LET d == Done(s, r1)
       IN  IF d.b THEN [node |-> n, s |-> d.s, B |-> b, more |-> FALSE, err |-> "nil", why |-> "done"]
           ELSE LET g == GetNextDataNode(d.s, r2, rawLeaves, prefix)
                IN  IF g.err # "nil" \/ g.node = NoNode
                      THEN [node |-> n, s |-> g.s, B |-> b, more |-> TRUE, err |-> "nil", why |-> "body"]
                    ELSE LET a == AddChild(n, g.node, b, ok)
                         IN  [node |-> a.node, s |-> g.s, B |-> a.B,
                              more |-> (a.err = "nil"), err |-> a.err, why |-> "body"]

\* one turn of the loop of FillNodeLayer: its condition and, if it holds, its
\* body (why: the condition found the node full, or Done() true, or the body ran)
FillTurn(n, s, b, r1, r2, ok) ==
  IF ~HasRoom(n, maxlinks)
    THEN [node |-> n, s |-> s, B |-> b, more |-> FALSE, err |-> "nil", why |-> "full"]
  ELSE LET d == Done(s, r1)
       IN  IF d.b THEN [node |-> n, s |-> d.s, B |-> b, more |-> FALSE, err |-> "nil", why |-> "done"]
           ELSE LET g == GetNextDataNode(d.s, r2, rawLeaves, prefix)
                IN  IF g.err # "nil"
                      THEN [node |-> n, s |-> g.s, B |-> b, more |-> FALSE, err |-> g.err, why |-> "body"]
                    ELSE IF g.node = NoNode
                      THEN [node |-> n, s |-> g.s, B |-> b, more |-> FALSE, err |-> "PANIC", why |-> "body"]
                    ELSE LET a == AddChild(n, g.node, b, ok)
                         IN  [node |-> a.node, s |-> g.s, B |-> a.B,
                              more |-> (a.err = "nil"), err |-> a.err, why |-> "body"]

\* taken, after a Next() that returned d
Took(q, d) == IF d # Nil THEN Append(q, d) ELSE q

(***************************************************************************)
(* The builder after DagBuilderParams.New.                                 *)
(***************************************************************************)
Init ==
  /\ maxlinks \in LinksRange
  /\ rawLeaves \in BOOLEAN
  /\ prefix \in Prefixes
  /\ pulled = <<>>
  /\ nextData = Nil
  /\ recvdErr = "nil"
  /\ nodes = <<>>
  /\ pc = "idle"
  /\ cur = 0
  /\ entry = 0
  /\ ret = NoRet
  /\ store = {}
  /\ pending = <<>>
  /\ batchErr = FALSE
  /\ surfaced = FALSE
  /\ sawDone = FALSE
  /\ clean = TRUE
  /\ fillErr = FALSE
  /\ taken = <<>>
  /\ turns = 0

SetS(s) ==
  /\ nextData' = s.nextData
  /\ recvdErr' = s.recvdErr
  /\ pulled' = s.pulled

SetB(b) ==
  /\ store' = b.store
  /\ pending' = b.pending
  /\ batchErr' = b.batchErr

(***************************************************************************)
(* The calls of the caller (the layout).                                   *)
(***************************************************************************)
CallDone ==
  /\ pc = "idle"
  /\ \E r \in NextBytes(pulled) :
       LET d == Done(S, r)
       IN  /\ SetS(d.s)
           /\ ret' = Ret("Done", d.b, Nil, NoNode, "nil")
           /\ sawDone' = (sawDone \/ d.b)
  /\ UNCHANGED <<cfgVars, batchVars, nodes, pc, cur, entry, surfaced, clean, fillErr, taken, turns>>

CallNext ==
  /\ pc = "idle"
  /\ \E r \in NextBytes(pulled) :
       LET n == DbNext(S, r)
       IN  /\ SetS(n.s)
           /\ ret' = Ret("Next", FALSE, n.data, NoNode, n.err)
           /\ surfaced' = (surfaced \/ n.err = "ERR")
           /\ taken' = Took(taken, n.data)
  /\ clean' = FALSE
  /\ UNCHANGED <<cfgVars, batchVars, nodes, pc, cur, entry, sawDone, fillErr, turns>>

CallGetNextDataNode ==
  /\ pc = "idle"
  /\ \E r \in NextBytes(pulled) :
       LET g == GetNextDataNode(S, r, rawLeaves, prefix)
       IN  /\ SetS(g.s)
           /\ ret' = Ret("GetNextDataNode", FALSE, Nil, g.node, g.err)
           /\ surfaced' = (surfaced \/ g.err = "ERR")
           /\ taken' = Took(taken, DbNext(S, r).data)
  /\ clean' = FALSE
  /\ UNCHANGED <<cfgVars, batchVars, nodes, pc, cur, entry, sawDone, fillErr, turns>>

\* FillNodeLayer(node) is entered, with a node NewUnixfsNode() has just made
CallFillFresh ==
  /\ pc = "idle"
  /\ Len(nodes) < MaxNodes
  /\ nodes' = Append(nodes, NewUnixfsNode(prefix))
  /\ cur' = Len(nodes) + 1
  /\ entry' = 0
  /\ pc' = "fill"
  /\ ret' = Ret("FillNodeLayer", FALSE, Nil, NoNode, "running")
  /\ turns' = 0
  /\ UNCHANGED <<cfgVars, srcVars, batchVars, histVars, taken>>

\* FillNodeLayer(node) is entered again, with the node made last
CallFillAgain ==
  /\ pc = "idle"
  /\ Len(nodes) > 0
  /\ cur' = Len(nodes)
  /\ entry' = NumChildren(nodes[Len(nodes)])
  /\ pc' = "fill"
  /\ ret' = Ret("FillNodeLayer", FALSE, Nil, NoNode, "running")
  /\ clean' = FALSE
  /\ turns' = 0
  /\ UNCHANGED <<cfgVars, srcVars, batchVars, nodes, surfaced, sawDone, fillErr, taken>>

\* one turn of the loop; the call returns when the loop ends
FillLoop ==
  /\ pc = "fill"
  /\ \E r1 \in NextBytes(pulled), ok \in BOOLEAN :
       \E r2 \in NextBytes(Done(S, r1).s.pulled) :
         LET f == FillTurn(nodes[cur], S, B, r1, r2, ok)
         IN  /\ nodes' = [nodes EXCEPT ![cur] = f.node]
             /\ SetS(f.s)
             /\ SetB(f.B)
             /\ pc' = IF f.more THEN "fill" ELSE IF f.err = "PANIC" THEN "panic" ELSE "idle"
             /\ ret' = IF f.more THEN ret ELSE [ret EXCEPT !.err = f.err, !.b = (f.why = "done")]
             /\ surfaced' = (surfaced \/ f.err = "ERR")
             /\ fillErr' = (fillErr \/ f.err # "nil")
             /\ turns' = IF f.why = "body" THEN turns + 1 ELSE turns
             /\ taken' = IF f.why = "body" THEN Took(taken, DbNext(Done(S, r1).s, r2).data) ELSE taken
  /\ UNCHANGED <<cfgVars, cur, entry, sawDone, clean>>

CallAdd ==
  /\ pc = "idle"
  /\ \E i \in 1..Len(nodes), enc \in BOOLEAN, ok \in BOOLEAN :
       LET a == Add(nodes[i], B, enc, ok)
       IN  /\ SetB(a.B)
           /\ ret' = Ret("Add", FALSE, Nil, a.node, a.err)
  /\ UNCHANGED <<cfgVars, srcVars, nodes, pc, cur, entry, histVars, taken, turns>>

CallClose ==
  /\ pc = "idle"
  /\ \E ok \in BOOLEAN :
       LET c == Close(B, ok)
       IN  /\ SetB(c.B)
           /\ ret' = Ret("Close", FALSE, Nil, NoNode, c.err)
  /\ UNCHANGED <<cfgVars, srcVars, nodes, pc, cur, entry, histVars, taken, turns>>

(***************************************************************************)
(* NewLeaf on its own: every configuration, every chunk up to one byte     *)
(* over the limit, and nil.                                                *)
(***************************************************************************)
LeafInputs == {Nil} \cup {Bytes(s) : s \in UNION {[1..n -> {1, 2}] : n \in 0..(BlockSizeLimit + 1)}}

CallNewLeaf ==
  /\ pc = "idle"
  /\ \E d \in LeafInputs :
       LET l == NewLeaf(d, rawLeaves, prefix)
       IN  ret' = Ret("NewLeaf", FALSE, d, l.node, l.err)
  /\ UNCHANGED <<cfgVars, srcVars, batchVars, histVars, nodes, pc, cur, entry, taken, turns>>

(***************************************************************************)
(* Specifications.  Spec: every call.  SpecFill: the lookahead and the     *)
(* layer filler.  SpecStore: the filler with Add and Close.  SpecLeaf:     *)
(* NewLeaf alone.                                                          *)
(***************************************************************************)
Next ==
  \/ CallDone
  \/ CallNext
  \/ CallGetNextDataNode
  \/ CallFillFresh
  \/ CallFillAgain
  \/ FillLoop
  \/ CallAdd
  \/ CallClose
  \/ CallNewLeaf

Spec == Init /\ [][Next]_vars

NextFill ==
  \/ CallDone
  \/ CallNext
  \/ CallGetNextDataNode
  \/ CallFillFresh
  \/ CallFillAgain
  \/ FillLoop

SpecFill == Init /\ [][NextFill]_vars

NextStore ==
  \/ CallFillFresh
  \/ FillLoop
  \/ CallAdd
  \/ CallClose

SpecStore == Init /\ [][NextStore]_vars

NextLeaf == CallNewLeaf

SpecLeaf == Init /\ [][NextLeaf]_vars

(***************************************************************************)
(* The caller loop of the layouts:                                         *)
(*   for !db.Done() { node := db.NewUnixfsNode();                          *)
(*                    if err := db.FillNodeLayer(node); err != nil {       *)
(*                      return err } }                                     *)
(* After the loop has ended the caller may call FillNodeLayer again on the *)
(* node made last. The caller runs on: it is never stopped for ever at a   *)
(* step it can take.                                                       *)
(***************************************************************************)
LoopEnded ==
  /\ pc = "idle"
  /\ \/ ret.op = "Done" /\ ret.b
     \/ ret.op = "FillNodeLayer" /\ ret.err # "nil"

LoopTest ==
  /\ ret = NoRet \/ (ret.op = "FillNodeLayer" /\ ret.err = "nil")
  /\ CallDone

LoopFill ==
  /\ ret.op = "Done" /\ ~ret.b
  /\ CallFillFresh

LoopRetry ==
  /\ LoopEnded
  /\ CallFillAgain

NextLoop ==
  \/ LoopTest
  \/ LoopFill
  \/ FillLoop
  \/ LoopRetry

SpecLoop == Init /\ [][NextLoop]_vars /\ WF_vars(LoopTest \/ LoopFill \/ FillLoop)

(***************************************************************************)
(* What the claims speak of.                                               *)
(***************************************************************************)
\* a pull that returned no chunk and no failure, or the end-of-stream signal
EndSignal(r) == r.err = "EOF" \/ (r.data = Nil /\ r.err = "nil")

\* after an end signal the splitter has only returned (nil, io.EOF)
StableEnd(h) == \A i, j \in 1..Len(h) : (i < j /\ EndSignal(h[i])) => h[j] = EOFResult

\* chunks within the limit, then end-of-stream, and no read failure
WellBehaved(h) ==
  /\ StableEnd(h)
  /\ \A i \in 1..Len(h) :
       \/ h[i] = EOFResult
       \/ h[i].err = "nil" /\ h[i].data # Nil /\ len(h[i].data) <= BlockSizeLimit

RECURSIVE Flatten(_)
Flatten(q) == IF q = <<>> THEN <<>> ELSE Head(q) \o Flatten(Tail(q))

\* the payloads of the leaves, in node order and then child order
LeafPayloads == Flatten([i \in 1..Len(nodes) |-> [j \in 1..Len(nodes[i].links) |-> nodes[i].links[j].data]])

HasChunk(r) == r.data # Nil
\* the chunks the splitter has returned, in order
SourceChunks(h) == [i \in 1..Len(SelectSeq(h, HasChunk)) |-> SelectSeq(h, HasChunk)[i].data]

TotalChildren(ns) == Len(Flatten([i \in 1..Len(ns) |-> ns[i].links]))

AllLeaves == UNION {Range(nodes[i].links) : i \in 1..Len(nodes)}

(***************************************************************************)
(* The claims.                                                             *)
(***************************************************************************)

\* C1: a node that held at most maxlinks children when FillNodeLayer was
\* called on it holds at most maxlinks children in every state of the call
\* and after it has returned, with nil or with an error.
C1_FanoutBounded ==
  (cur # 0 /\ entry <= maxlinks) => NumChildren(nodes[cur]) <= maxlinks

\* C1 witness: a call has returned nil with the node filled to the cap while
\* the splitter has not ended.
C1_Witness ==
  /\ pc = "idle" /\ ret.op = "FillNodeLayer" /\ ret.err = "nil"
  /\ maxlinks >= 1 /\ NumChildren(nodes[cur]) = maxlinks
  /\ Len(pulled) < MaxPulls

C3_DoneIdempotentAsStated ==
  [][(ret.op = "Done" /\ ret'.op = "Done")
       => (ret'.b = ret.b /\ nextData' = nextData /\ recvdErr' = recvdErr)]_vars

\* C3 amended: Done() never changes a lookahead that holds a chunk or an
\* error, and does not pull then; a Done() that follows a Done() returns the
\* same boolean and leaves the lookahead as it was when the splitter, once it
\* has given an end signal, only returns end-of-stream.
C3_DoneIdempotent ==
  [][(ret'.op = "Done")
       => /\ (nextData # Nil \/ recvdErr # "nil")
               => (nextData' = nextData /\ recvdErr' = recvdErr /\ pulled' = pulled)
          /\ (ret.op = "Done" /\ StableEnd(pulled'))
               => (ret'.b = ret.b /\ nextData' = nextData /\ recvdErr' = recvdErr)]_vars

\* C3 witness: Done() was called twice in a row on an ended splitter, and
\* pulled it both times.
C3_Witness ==
  /\ ret.op = "Done" /\ ret.again /\ ret.b
  /\ pulled = <<EOFResult, EOFResult>>

\* C4: for a splitter that only returns end-of-stream after its end, once
\* Done() has returned true every Next() returns (nil, nil), every
\* GetNextDataNode returns (nil, nil) and every Done() returns true.
C4_ExhaustionStable ==
  (sawDone /\ StableEnd(pulled))
    => /\ ret.op = "Next" => (ret.data = Nil /\ ret.err = "nil")
       /\ ret.op = "GetNextDataNode" => (ret.node = NoNode /\ ret.err = "nil")
       /\ ret.op = "Done" => ret.b

\* C4 witness: a chunk was delivered, Done() returned true, and Next() has
\* been called twice since.
C4_Witness ==
  /\ sawDone /\ StableEnd(pulled) /\ ret.op = "Next" /\ ret.again
  /\ Len(pulled) = 2 /\ pulled[1].data # Nil /\ pulled[2] = EOFResult

\* C5: once a read failure has been returned to the caller, no Next() returns
\* a chunk, no GetNextDataNode returns a node and no child is appended.
C5_NoChunkAfterFailure ==
  [][surfaced
       => /\ ret'.op = "Next" => ret'.data = Nil
          /\ ret'.op = "GetNextDataNode" => ret'.node = NoNode
          /\ TotalChildren(nodes') = TotalChildren(nodes)]_vars

\* C5 witness: the failure was returned, and Next() was called again while
\* the splitter could still return chunks.
C5_Witness ==
  /\ surfaced /\ ret.op = "Next" /\ ret.again /\ ret.err = "ERR"
  /\ Len(pulled) < MaxPulls

\* C6: NewLeaf returns ErrSizeLimitExceeded and no node for every chunk longer
\* than BlockSizeLimit, whatever rawLeaves and prefix are, and never returns
\* it for a chunk within the limit.
C6_SizeLimit ==
  ret.op = "NewLeaf"
    => /\ len(ret.data) > BlockSizeLimit
            => (ret.err = "ErrSizeLimitExceeded" /\ ret.node = NoNode)
       /\ len(ret.data) <= BlockSizeLimit => ret.err # "ErrSizeLimitExceeded"

\* C6 witness: a chunk over the limit with raw leaves and a prefix.
C6_Witness ==
  /\ ret.op = "NewLeaf" /\ len(ret.data) > BlockSizeLimit
  /\ rawLeaves /\ prefix = "bad" /\ ret.err = "ErrSizeLimitExceeded"

C8_Durable ==
  (ret.op = "Close" /\ ret.err = "nil") => (pending = <<>> /\ AllLeaves \subseteq store)

\* C8 witness: Close() returned nil after two leaves were appended.
C8_Witness ==
  /\ ret.op = "Close" /\ ret.err = "nil" /\ ~ret.again
  /\ Cardinality(AllLeaves) = 2

\* C9 as stated: an Add that returns no error has put the node in the batch
\* and has written nothing to the store.
C9_AddOnlyEnqueuesAsStated ==
  [][(ret'.op = "Add" /\ ret'.err = "nil")
       => (store' = store /\ ret'.node \in Range(pending'))]_vars

\* C9 amended: an Add that returns no error has written the node to the store
\* itself, and has left the batch as it was.
C9_AddWritesThrough ==
  [][(ret'.op = "Add" /\ ret'.err = "nil")
       => (ret'.node \in store' /\ pending' = pending /\ batchErr' = batchErr)]_vars

\* C9 witness: Add returned a node with a child while that child was still
\* in the batch (no Close() yet).
C9_Witness ==
  /\ ret.op = "Add" /\ ret.err = "nil" /\ ret.node \in store
  /\ NumChildren(ret.node) = 1 /\ pending = ret.node.links

\* C10: a Close() that follows a Close() that returned nil returns nil and
\* changes neither the store nor the batch.
C10_SecondCloseNoop ==
  [][(ret.op = "Close" /\ ret.err = "nil" /\ ret'.op = "Close")
       => (ret'.err = "nil" /\ store' = store /\ pending' = pending
           /\ batchErr' = batchErr)]_vars

\* C10 witness: the second Close() after one that wrote a leaf.
C10_Witness ==
  /\ ret.op = "Close" /\ ret.again /\ ret.err = "nil" /\ store # {}

(***************************************************************************)
(* Helpers of the claims on layers, exhaustion and failures.               *)
(***************************************************************************)
Min(a, b) == IF a < b THEN a ELSE b
Max(a, b) == IF a > b THEN a ELSE b

\* the payloads of the children of node n, in child order
Payloads(n) == [j \in 1..Len(n.links) |-> n.links[j].data]

\* the k-th stretch of m chunks of the sequence c
Stretch(c, k, m) == SubSeq(c, (k - 1) * m + 1, Min(k * m, Len(c)))

\* the splitter has ended: it has returned an end signal, or all its pulls are used up
Ended(h) == (\E i \in 1..Len(h) : EndSignal(h[i])) \/ Len(h) = MaxPulls

\* only Done() and FillNodeLayer(fresh node) were called, on a failure-free
\* source of chunks within the limit, with maxlinks >= 1, and no call is running
LayerRun == clean /\ WellBehaved(pulled) /\ maxlinks >= 1 /\ pc = "idle"

C12_DoneIffAllTaken ==
  (WellBehaved(pulled) /\ ret.op = "Done") =>
    /\ ret.b <=> Len(taken) = Len(SourceChunks(pulled))
    /\ ret.b => (taken = SourceChunks(pulled) /\ Ended(pulled))

C12_Witness ==
  /\ WellBehaved(pulled) /\ ret.op = "Done" /\ ret.b
  /\ taken = <<Bytes(<<>>), Bytes(<<1>>)>>

\* the chunk the loop body of this step takes from the lookahead
TurnChunk ==
  IF nextData # Nil THEN nextData
  ELSE IF pulled' # pulled THEN pulled'[Len(pulled')].data ELSE Nil

\* the error Next() or NewLeaf returns in the loop body of this step
TurnErr ==
  IF recvdErr' # "nil" THEN recvdErr'
  ELSE IF TurnChunk = Nil THEN "nil"
  ELSE NewLeaf(TurnChunk, rawLeaves, prefix).err

\* C13: when Next() or NewLeaf fails in a turn of FillNodeLayer, the call
\* returns that error at once, has pulled at most the one chunk of that turn,
\* and leaves the children of every node as they were before the turn.
C13_FailFast ==
  [][(pc = "fill" /\ HasRoom(nodes[cur], maxlinks) /\ TurnErr # "nil") =>
       /\ pc' = "idle"
       /\ ret'.err = TurnErr
       /\ nodes' = nodes
       /\ Len(pulled') <= Len(pulled) + 1]_vars

C13_Witness ==
  /\ pc = "idle" /\ ret.op = "FillNodeLayer" /\ ret.err = "ErrSizeLimitExceeded"
  /\ Payloads(nodes[cur]) = <<Bytes(<<1>>)>>
  /\ pulled = <<Res(Bytes(<<1>>), "nil"), Res(BigChunk, "nil")>>

\* C14 as stated: the Next() that returns the read failure clears it.
C14_ClearedOnceReturnedAsStated ==
  (ret.op = "Next" /\ ret.err = "ERR") => recvdErr = "nil"

\* C14: a non-end-of-stream read failure is returned by every Next() call,
\* before and after it has first been returned: Next() leaves recvdErr as it
\* is, so once the failure has been returned it is still pending and it is
\* the last result the source has been asked for.
C14_FailureStaysPending ==
  /\ ret.op = "Next" => ret.err = recvdErr
  /\ surfaced => (recvdErr = "ERR" /\ pulled # <<>> /\ pulled[Len(pulled)].err = "ERR")

C14_Witness ==
  ret.op = "Next" /\ ret.again /\ ret.err = "ERR" /\ ret.data = Nil /\ recvdErr = "ERR"

\* C15 as stated: nextData and recvdErr are never both set.
C15_AtMostOneAsStated == ~(nextData # Nil /\ recvdErr # "nil")

\* C15: nextData and recvdErr are both set only when the last NextBytes
\* returned these bytes together with that non-end-of-stream error, and
\* never after a Next(); for every other source result at most one is set.
C15_BothOnlyFromSource ==
  /\ (nextData # Nil /\ recvdErr # "nil") =>
       (recvdErr = "ERR" /\ pulled # <<>> /\ pulled[Len(pulled)] = Res(nextData, recvdErr))
  /\ ret.op \in {"Next", "GetNextDataNode"} => nextData = Nil

C15_Witness == nextData = Bytes(<<1>>) /\ recvdErr = "ERR" /\ ret.op = "Done" /\ ~ret.b

Undropped(r) == r.data # Nil /\ r.err # "ERR"
\* the chunks the splitter has returned without a read failure, in order
Deliverable(h) == [i \in 1..Len(SelectSeq(h, Undropped)) |-> SelectSeq(h, Undropped)[i].data]

\* the chunk waiting in the lookahead for the next Next()
Waiting == IF nextData # Nil /\ recvdErr = "nil" THEN <<nextData>> ELSE <<>>

\* C16: end-of-stream is never an error: io.EOF is neither stored nor
\* returned, a read failure is returned only if the source has returned one
\* (Next() returns no other error), a chunk that came with io.EOF is
\* delivered like any other, and Done() is true only after it was delivered.
C16_EOFNeverAnError ==
  /\ ret.err # "EOF" /\ recvdErr # "EOF"
  /\ ret.op = "Next" => ret.err \in {"nil", "ERR"}
  /\ ret.err = "ERR" => \E i \in 1..Len(pulled) : pulled[i].err = "ERR"
  /\ taken \o Waiting = Deliverable(pulled)
  /\ (ret.op = "Done" /\ ret.b) => taken = Deliverable(pulled)

C16_Witness ==
  /\ pulled = <<Res(Bytes(<<1>>), "EOF"), EOFResult>>
  /\ taken = <<Bytes(<<1>>)>> /\ ret.op = "Done" /\ ret.b

\* C17: for every maxlinks (0 and negative included) the loop body of a
\* FillNodeLayer call runs at most max(0, maxlinks - children at entry)
\* times, and with maxlinks >= 1 the caller loop over a finite source ends,
\* with Done() true or with an error returned by FillNodeLayer.
C17_Terminates ==
  /\ [](turns <= Max(0, maxlinks - entry))
  /\ (maxlinks >= 1) => <>LoopEnded

C17_Witness ==
  /\ LoopEnded /\ ret.op = "Done" /\ maxlinks = 1
  /\ Len(nodes) = 2 /\ NumChildren(nodes[1]) = 1 /\ NumChildren(nodes[2]) = 1 /\ turns = 1

\* the chunks Next() has returned are the chunks pulled, in order, but for at
\* most the last one
Lookahead ==
  /\ Len(SourceChunks(pulled)) - Len(taken) \in {0, 1}
  /\ taken = SubSeq(SourceChunks(pulled), 1, Len(taken))

\* C18: NextBytes is pulled only while the slot holds neither a chunk nor an
\* error, and at most once in a step; the chunks pulled exceed the chunks
\* returned by Next() by at most one, and each is returned at most once.
C18_OneChunkLookahead ==
  [][/\ pulled' # pulled =>
          (nextData = Nil /\ recvdErr = "nil" /\ Len(pulled') = Len(pulled) + 1)
     /\ Lookahead']_vars

C18_Witness ==
  /\ pulled = <<Res(Bytes(<<>>), "nil"), Res(Bytes(<<1>>), "nil")>>
  /\ taken = <<Bytes(<<>>)>> /\ nextData = Bytes(<<1>>)

\* C19: FillNodeLayer never hands a nil child to AddChild, and a
\* GetNextDataNode called right after Done() returned false returns a leaf
\* or an error, never (nil, nil).
C19_NoNilChild ==
  [][/\ pc' # "panic" /\ ret'.err # "PANIC"
     /\ (ret.op = "Done" /\ ~ret.b /\ ret'.op = "GetNextDataNode") =>
          (ret'.node # NoNode \/ ret'.err # "nil")]_vars

C19_Witness ==
  /\ pc = "idle" /\ ret.op = "FillNodeLayer" /\ ret.err = "nil"
  /\ Payloads(nodes[cur]) = <<Bytes(<<>>)>>

\* the source has returned a non-end-of-stream failure
Failed == \E i \in 1..Len(pulled) : pulled[i].err = "ERR"

\* C20: once the source has returned a non-end-of-stream failure, the failure
\* stays pending and is the last result pulled (the source is not pulled
\* again), every Done() returns false, every Next() and GetNextDataNode
\* returns that failure with no chunk, and FillNodeLayer returns it unless
\* the node is full.
C20_ErrorAbsorbing ==
  Failed =>
    /\ recvdErr = "ERR"
    /\ \A i \in 1..Len(pulled) : pulled[i].err = "ERR" <=> i = Len(pulled)
    /\ ret.op = "Done" => ~ret.b
    /\ ret.op = "Next" => (ret.data = Nil /\ ret.err = "ERR")
    /\ ret.op = "GetNextDataNode" => (ret.node = NoNode /\ ret.err = "ERR")
    /\ (ret.op = "FillNodeLayer" /\ pc = "idle") =>
         /\ ~ret.b
         /\ \/ ret.err = "ERR"
            \/ ret.err = "nil" /\ ~HasRoom(nodes[cur], maxlinks)

C20_Witness ==
  /\ Failed /\ Len(pulled) = 1 /\ surfaced
  /\ ret.op = "Done" /\ ret.again /\ ~ret.b
====
